---- MODULE Spec2Model ----
(***************************************************************************)
(* Model of the status-tracking and notification-debounce engine of        *)
(* backend/app.py (class-notify).                                          *)
(*                                                                         *)
(* Shared state: tracked_classes (the registry) and notify_tracker (the    *)
(* tracker store).  notify_tracker holds references to mutable dict        *)
(* objects; the handlers keep such references in local variables across    *)
(* blocking calls, so the tracker objects live in a small heap and the     *)
(* store, the reconcile job, the reminder job and the add request each     *)
(* hold slot numbers into it.                                              *)
(*                                                                         *)
(* Four threads of control: the add request (Flask), the delete request    *)
(* (Flask), the status_check_job and the reminder_check_job (APScheduler,  *)
(* at most one running instance of each job).  Each handler is cut at its  *)
(* blocking calls (class_checker.fetch_class_details, requests.post) and   *)
(* at the head of its per-entity loop.                                     *)
(***************************************************************************)
EXTENDS Integers, FiniteSets, TLC

\* ---------------------------------------------------------------- constants
MAX_NOTIFICATIONS == 10
NOTIFICATION_INTERVAL_HOURS == 1
\* (NOTIFICATION_INTERVAL_HOURS * 60 * 60 * 1000) of hourly_reminder_check
IntervalMs == NOTIFICATION_INTERVAL_HOURS * 60 * 60 * 1000

\* ------------------------------------------------------------------- bounds
\* The wall clock moves in steps inside a window of so many steps above
\* StartTime (see Advance and Shift).
SeqHorizon == 2
ConcHorizon == 1
HalfHour == 30 * 60 * 1000
StartTime == 2 * IntervalMs

Keys == {"k1", "k2"}
Groups == {"gA", "gB"}
\* 'OPEN' and 'FULL' drive the notification logic; "WAIT" stands for any other
\* status text the source may report.
Status == {"OPEN", "FULL", "WAIT"}
Missing == "missing"
None == "none"
\* Up to four tracker objects of one classNumber are alive at a time: the one
\* in notify_tracker and one held by each of the three handlers.
Slots == 0 .. 3
NoSlot == -1
\* of send_notification: delivered, or not (requests.post raised and the error
\* was logged, or no ntfy topic is set and the notification was skipped)
Outcomes == {"ok", "fail"}
\* of class_checker.fetch_class_details, the snapshot source: it returns the
\* batch of a group, or it fails with FetchError
FetchResults == {"batch", "FetchError"}

VARIABLES
  clock,      \* int(time.time() * 1000)
  grp,        \* the source's catalogue: className of each classNumber
  tracked,    \* tracked_classes: classNumber -> status of the stored details
  nt,         \* notify_tracker: classNumber -> tracker object (slot)
  heap,       \* the tracker dict objects
  addp,       \* the add request in flight
  rec,        \* the running check_class_statuses job
  tick,       \* the running hourly_reminder_check job
  hist,       \* history of what was observed and emitted, per classNumber
  watch       \* which part of the history hist records (no handler reads it)

vars == <<clock, grp, tracked, nt, heap, addp, rec, tick, hist, watch>>

\* {'count': 0, 'lastSent': 0, 'lastStatus': 'FULL'}
InitTracker == [count |-> 0, lastSent |-> 0, lastStatus |-> "FULL"]
\* an unused heap slot
Free == [count |-> -1, lastSent |-> 0, lastStatus |-> "free"]

AddIdle == [pc |-> "idle", k |-> None, ref |-> NoSlot]
RecIdle == [pc |-> "idle", todo |-> {}, nums |-> {}, cur |-> None,
            ref |-> NoSlot, new |-> None, kind |-> None]
TickIdle == [pc |-> "idle", now |-> 0, items |-> {}, refs |-> [k \in Keys |-> NoSlot],
             cur |-> None, carried |-> 0]

HistInit == [lastObs  |-> [k \in Keys |-> None],
             lastEdge |-> [k \in Keys |-> None],
             remSince |-> [k \in Keys |-> 0],
             streak   |-> [k \in Keys |-> -1],
             delHist  |-> [k \in Keys |-> "never"],
             failed   |-> [k \in Keys |-> FALSE],
             lastAt   |-> [k \in Keys |-> 0],
             answer   |-> [k \in Keys |-> None],
             other    |-> [k \in Keys |-> FALSE]]

\* ------------------------------------------------------------ tracker heap
\* A tracker object is alive while notify_tracker or a handler's local
\* variable refers to it.
LiveIn(k, s, ntv, addv, recv, tickv) ==
  \/ ntv[k] = s
  \/ addv.pc = "send" /\ addv.k = k /\ addv.ref = s
  \/ recv.pc = "send" /\ recv.cur = k /\ recv.ref = s
  \/ tickv.pc # "idle" /\ tickv.refs[k] = s

\* The next values n, h, a, r, t of notify_tracker, the heap and the three
\* handlers, with the objects nothing refers to any more dropped and the
\* remaining objects of each classNumber renumbered 0, 1, ... in the order
\* they were created (which object sits in which slot is no part of the
\* program's state).
CommitWith(n, h, a, r, t, live, rk) ==
  /\ nt' = [k \in Keys |-> rk[k][n[k]]]
  /\ heap' = [k \in Keys |-> [i \in Slots |->
                IF \E u \in live[k] : rk[k][u] = i
                THEN h[k][CHOOSE u \in live[k] : rk[k][u] = i] ELSE Free]]
  /\ addp' = [a EXCEPT !.ref = IF a.pc = "send" THEN rk[a.k][@] ELSE NoSlot]
  /\ rec' = [r EXCEPT !.ref = IF r.pc = "send" THEN rk[r.cur][@] ELSE NoSlot]
  /\ tick' = [t EXCEPT !.refs = [k \in Keys |->
                IF t.pc # "idle" THEN rk[k][t.refs[k]] ELSE NoSlot]]

Ranks(live) == [k \in Keys |-> [s \in Slots \cup {NoSlot} |->
               IF s = NoSlot THEN NoSlot
               ELSE Cardinality({u \in live[k] : u < s})]]
CommitLive(n, h, a, r, t, live) == 
    \E rk \in {Ranks(live)} : CommitWith(n, h, a, r, t, live, rk)
CommitVals(n, h, a, r, t) ==
  \E live \in {[k \in Keys |-> {s \in Slots : LiveIn(k, s, n, a, r, t)}]} :
     CommitLive(n, h, a, r, t, live)
Commit(n, h, a, r, t) ==
  \E nn \in {n}, hh \in {h}, aa \in {a}, rr \in {r}, tt \in {t} :
     CommitVals(nn, hh, aa, rr, tt)

\* A fresh dict object for classNumber k: the slot after the live ones.
Alloc(k) == Cardinality({s \in Slots : LiveIn(k, s, nt, addp, rec, tick)})

HasTracker(k) == nt[k] # NoSlot
\* notify_tracker[k]
Stored(k) == heap[k][nt[k]]

\* tracker.update(...) / tracker[...] = ... on the object in slot s of k; a
\* tracker that is the default of notify_tracker.get(num, {...}) is in no
\* slot and the write is lost with the local variable.
Write(h, k, s, t) == IF s = NoSlot THEN h ELSE [h EXCEPT ![k][s] = t]

\* ------------------------------------------------------------------ history
W(a) == watch = a \/ watch = "all"
Sat(n, cap) == IF n > cap THEN cap ELSE n

\* send_notification(details, reason) was called for classNumber k.
Emitted(h, kind, k) ==
  LET h1 == IF ~W("log") THEN h
            ELSE IF kind = "REMINDER"
            THEN [h EXCEPT !.remSince[k] = Sat(@ + 1, MAX_NOTIFICATIONS)]
            ELSE [h EXCEPT !.lastEdge[k] = kind, !.remSince[k] = 0]
      h2 == IF W("streak") /\ kind = "SEAT_OPENED"
            THEN [h1 EXCEPT !.streak[k] = IF @ < 0 THEN @ ELSE Sat(@ + 1, 2)]
            ELSE h1
      h3 == IF watch = "time" /\ kind \in {"SEAT_OPENED", "REMINDER"}
            THEN [h2 EXCEPT !.lastAt[k] = IF kind = "REMINDER" THEN tick.now ELSE clock]
            ELSE h2
  IN IF W("answer") /\ kind \in {"SEAT_OPENED", "SEAT_CLOSED"}
     THEN [h3 EXCEPT !.answer[k] = kind]
     ELSE h3

\* A fetch returned st for classNumber k (Missing: k is not in the result).
Observed(h, k, st) ==
  LET h1 == IF W("streak") /\ st # "OPEN" THEN [h EXCEPT !.streak[k] = -1] ELSE h
  IN IF W("other") /\ st \notin {"OPEN", "FULL", Missing}
     THEN [h1 EXCEPT !.other[k] = TRUE]
     ELSE h1

\* notify_tracker[k] was assigned a new tracker.
Created(h, k) ==
  IF W("other") THEN [h EXCEPT !.other[k] = FALSE] ELSE h

\* send_notification returned for classNumber k with the given outcome.
Delivered(h, k, outcome) ==
  IF W("cycle") THEN [h EXCEPT !.failed[k] = (outcome # "ok")] ELSE h

\* ------------------------------------------------------- add_tracked_class
\* Lines 70-76 up to the fetch of perform_immediate_check: the request's
\* details (status st, as the search returned it earlier) are stored, then
\* the handler blocks in class_checker.fetch_class_details.
AddBegin(k, st) ==
  /\ addp.pc = "idle"
  /\ tracked' = [tracked EXCEPT ![k] = st]
  /\ Commit(nt, heap, [pc |-> "fetch", k |-> k, ref |-> NoSlot], rec, tick)
  /\ hist' = [hist EXCEPT
       !.lastObs[k] = IF W("cycle") THEN None ELSE @,
       !.failed[k] = IF W("cycle") THEN FALSE ELSE @,
       !.streak[k] = IF W("streak")
                     THEN (IF tracked[k] = None /\ ~HasTracker(k) THEN 0 ELSE -1)
                     ELSE @,
       !.answer[k] = IF W("answer") /\ tracked[k] = None THEN None ELSE @]
  /\ UNCHANGED <<clock, grp, watch>>

\* tracker.update({'count': 1, 'lastSent': int(time.time() * 1000), 'lastStatus': 'OPEN'})
AddOpenedTracker(now) == [count |-> 1, lastSent |-> now, lastStatus |-> "OPEN"]

\* Whether perform_immediate_check stores a tracker for a fetch result in
\* which the classNumber has status res (Missing: it is not in the result,
\* the loop body never runs).
AddStoresTracker(res) == res # Missing

\* perform_immediate_check, from the return of the fetch to the call of
\* send_notification or to the end.
AddFetchReturn(res) ==
  /\ addp.pc = "fetch"
  /\ "batch" \in FetchResults
  /\ LET k == addp.k
         s == Alloc(k) IN
     IF ~AddStoresTracker(res)
     THEN /\ Commit(nt, heap, AddIdle, rec, tick)
          /\ hist' = Observed(hist, k, res)
          /\ tracked' = tracked
     ELSE /\ tracked' = [tracked EXCEPT ![k] = IF res = Missing THEN @ ELSE res]
          /\ IF res = "OPEN"
             THEN /\ Commit([nt EXCEPT ![k] = s], [heap EXCEPT ![k][s] = InitTracker],
                            [pc |-> "send", k |-> k, ref |-> s], rec, tick)
                  /\ hist' = Emitted(Created(Observed(hist, k, res), k), "SEAT_OPENED", k)
             ELSE /\ Commit([nt EXCEPT ![k] = s], [heap EXCEPT ![k][s] = InitTracker],
                            AddIdle, rec, tick)
                  /\ hist' = Created(Observed(hist, k, res), k)
  /\ UNCHANGED <<clock, grp, watch>>

\* The fetch of the immediate check fails: the exception leaves
\* perform_immediate_check and add_tracked_class (the request is answered 500).
AddFetchRaise ==
  /\ addp.pc = "fetch"
  /\ "FetchError" \in FetchResults
  /\ Commit(nt, heap, AddIdle, rec, tick)
  /\ hist' = Observed(hist, addp.k, Missing)
  /\ UNCHANGED <<clock, grp, tracked, watch>>

\* send_notification returns (delivered, failed and logged, or skipped for
\* want of a topic) and line 98 updates the tracker the handler created.
AddSendReturn(outcome) ==
  /\ addp.pc = "send"
  /\ Commit(nt, Write(heap, addp.k, addp.ref, AddOpenedTracker(clock)),
            AddIdle, rec, tick)
  /\ hist' = Delivered(hist, addp.k, outcome)
  /\ UNCHANGED <<clock, grp, tracked, watch>>

\* ---------------------------------------------------- delete_tracked_class
\* tracked_classes.pop(class_number, None)
DeletePopTracked(k) == [tracked EXCEPT ![k] = None]
\* (a delete that leaves the tracker in the store)
DeleteKeepsTracker(k) == nt
\* notify_tracker.pop(class_number, None)
DeletePopTracker(k) == [nt EXCEPT ![k] = NoSlot]

Delete(k) ==
  /\ tracked' = DeletePopTracked(k)
  /\ Commit(DeletePopTracker(k), heap, addp, rec, tick)
  /\ hist' = [hist EXCEPT
       !.lastObs[k] = IF W("cycle") THEN None ELSE @,
       !.failed[k] = IF W("cycle") THEN FALSE ELSE @,
       !.streak[k] = IF W("streak") THEN -1 ELSE @,
       !.delHist[k] = IF W("cycle") /\ HasTracker(k) /\ Stored(k).lastStatus = "OPEN"
                                    /\ Stored(k).count > 1
                      THEN "open" ELSE @,
       !.answer[k] = IF W("answer") THEN None ELSE @,
       !.other[k] = IF W("other") THEN FALSE ELSE @]
  /\ UNCHANGED <<clock, grp, watch>>

\* ---------------------------------------------------- check_class_statuses
\* tracker = notify_tracker.get(num, {'count': 0, 'lastSent': 0, 'lastStatus': 'FULL'})
RecRef(k) == nt[k]
RecTracker(k) == IF HasTracker(k) THEN Stored(k) ELSE InitTracker

\* tracker.update({'count': 0, 'lastSent': 0}) before the OPEN notification
RisingReset(t) == [t EXCEPT !.count = 0, !.lastSent = 0]
\* (a rising edge that leaves the count at the 0 of its reset)
RisingKeepsZero(t, now) == [t EXCEPT !.lastSent = now]
\* tracker.update({'count': 1, 'lastSent': int(time.time() * 1000)}) after it
RisingCommit(t, now) == [t EXCEPT !.count = 1, !.lastSent = now]
\* (a falling edge that leaves the count as it was)
FallingKeepsCount(t) == t
\* tracker.update({'count': 0, 'lastSent': 0}) after the FULL notification
FallingCommit(t) == [t EXCEPT !.count = 0, !.lastSent = 0]
\* tracker['lastStatus'] = new_status
SetLastStatus(t, st) == [t EXCEPT !.lastStatus = st]

\* Lines 123-131: which notification a status change old -> new sends, if
\* any (new # old).
EdgeKind(old, new) ==
  IF new = "OPEN" THEN "SEAT_OPENED"
  ELSE IF new = "FULL" /\ old = "OPEN" THEN "SEAT_CLOSED"
  ELSE None

\* Where the job goes once the entity at hand is done: the next num of the
\* group, the fetch of the next group, or the end of the job.
RecAfter(r) ==
  IF r.nums # {} THEN [RecIdle EXCEPT !.pc = "loop", !.todo = r.todo, !.nums = r.nums]
  ELSE IF r.todo # {} THEN [RecIdle EXCEPT !.pc = "fetch", !.todo = r.todo]
  ELSE RecIdle

\* Lines 106-109: nothing to do without tracked classes; otherwise the
\* classNumbers are partitioned by className and the job blocks in the fetch
\* of a group.
RecStart ==
  /\ rec.pc = "idle"
  /\ \E k \in Keys : tracked[k] # None
  /\ Commit(nt, heap, addp,
            [RecIdle EXCEPT !.pc = "fetch", !.todo = {k \in Keys : tracked[k] # None}],
            tick)
  /\ UNCHANGED <<clock, grp, tracked, hist, watch>>

\* Lines 111-113: the fetch of group g returns.  An entry of the result is
\* read once, at line 116/117, and is drawn there.
RecFetchReturn(g) ==
  /\ rec.pc = "fetch"
  /\ "batch" \in FetchResults
  /\ \E k \in rec.todo : grp[k] = g
  /\ Commit(nt, heap, addp,
            [rec EXCEPT !.pc = "loop",
                        !.nums = {k \in rec.todo : grp[k] = g},
                        !.todo = {k \in rec.todo : grp[k] # g}],
            tick)
  /\ UNCHANGED <<clock, grp, tracked, hist, watch>>

\* Lines 111-112 when the fetch raises with the groups of r.todo still to
\* come: nothing in check_class_statuses catches the exception, the job ends
\* (APScheduler logs it and runs the job again at the next interval).
RecAfterRaise(r) == RecIdle

\* Line 112 raises for group g.
RecFetchRaise(g) ==
  /\ rec.pc = "fetch"
  /\ "FetchError" \in FetchResults
  /\ \E k \in rec.todo : grp[k] = g
  /\ LET r == RecAfterRaise([rec EXCEPT !.todo = {k \in rec.todo : grp[k] # g}])
     IN /\ Commit(nt, heap, addp, r, tick)
        /\ hist' = IF W("cycle")
                   THEN [hist EXCEPT !.lastObs =
                           [k \in Keys |-> IF k \in rec.todo /\ k \notin r.todo
                                           THEN None ELSE @[k]]]
                   ELSE hist
  /\ UNCHANGED <<clock, grp, tracked, watch>>

\* (a loop body that skips no num)
RecSkipsNothing(st) == FALSE
\* Line 116: if num not in fresh_details_map: continue
RecSkips(st) == st = Missing

\* Lines 115-134 for one num, up to the call of send_notification or to the
\* end of the loop body.  st is fresh_details_map[num]['status'], or Missing.
RecProc(k, st) ==
  /\ rec.pc = "loop"
  /\ k \in rec.nums
  /\ LET rest == [rec EXCEPT !.nums = @ \ {k}]
         t    == RecTracker(k)
         ref  == RecRef(k)
         old  == t.lastStatus
         kind == EdgeKind(old, st)
         seen == IF W("cycle")
                 THEN [Observed(hist, k, st) EXCEPT
                         !.lastObs[k] = IF st = Missing THEN None ELSE st]
                 ELSE Observed(hist, k, st)
     IN
     IF RecSkips(st)
     THEN /\ Commit(nt, heap, addp, RecAfter(rest), tick)
          /\ hist' = seen
          /\ tracked' = tracked
     ELSE /\ tracked' = [tracked EXCEPT ![k] = st]
          /\ IF st = old
             THEN /\ Commit(nt, heap, addp, RecAfter(rest), tick)
                  /\ hist' = seen
             ELSE IF kind # None
             THEN /\ Commit(nt,
                            IF kind = "SEAT_OPENED"
                            THEN Write(heap, k, ref, RisingReset(t)) ELSE heap,
                            addp,
                            [rest EXCEPT !.pc = "send", !.cur = k, !.ref = ref,
                                         !.new = st, !.kind = kind],
                            tick)
                  /\ hist' = Emitted(seen, kind, k)
             ELSE /\ Commit(nt, Write(heap, k, ref, SetLastStatus(t, st)),
                            addp, RecAfter(rest), tick)
                  /\ hist' = seen
  /\ UNCHANGED <<clock, grp, watch>>

\* send_notification returns; lines 129 / 132 and 134 update the tracker the
\* job holds, and the loop goes on.
RecSendReturn(outcome) ==
  /\ rec.pc = "send"
  /\ LET k == rec.cur
         t == IF rec.ref = NoSlot THEN InitTracker ELSE heap[k][rec.ref]
         u == IF rec.kind = "SEAT_OPENED" THEN RisingCommit(t, clock)
              ELSE FallingCommit(t)
     IN
     /\ Commit(nt, Write(heap, k, rec.ref, SetLastStatus(u, rec.new)),
               addp, RecAfter(rec), tick)
     /\ hist' = Delivered(hist, k, outcome)
  /\ UNCHANGED <<clock, grp, tracked, watch>>

\* --------------------------------------------------- hourly_reminder_check
\* (a reminder rule without the cap of MAX_NOTIFICATIONS)
ReminderDueNoCap(d, t, now) ==
  /\ d = "OPEN"
  /\ 0 < t.count
  /\ now - t.lastSent >= IntervalMs

\* (a reminder rule without the test of the interval)
ReminderDueAnyTime(d, t, now) ==
  /\ d = "OPEN"
  /\ 0 < t.count /\ t.count < MAX_NOTIFICATIONS

\* Lines 141-142: whether a reminder is due for details status d and tracker t.
ReminderDue(d, t, now) ==
  /\ d = "OPEN"
  /\ 0 < t.count /\ t.count < MAX_NOTIFICATIONS
  /\ now - t.lastSent >= IntervalMs

\* Lines 145-146.
ReminderCommit(t, now) == [t EXCEPT !.count = @ + 1, !.lastSent = now]

\* Line 164: the count the REMINDER message shows.
ReminderCount(k) == IF HasTracker(k) THEN Stored(k).count ELSE 0

TickAfter(tk, k) ==
  IF tk.items = {} THEN TickIdle
  ELSE [tk EXCEPT !.pc = "loop", !.cur = None, !.carried = 0, !.refs[k] = NoSlot]

\* Lines 138-139: now is read and list(notify_tracker.items()) is taken.
TickStart ==
  /\ tick.pc = "idle"
  /\ \E k \in Keys : HasTracker(k)
  /\ Commit(nt, heap, addp, rec,
            [TickIdle EXCEPT !.pc = "loop", !.now = clock,
                             !.items = {k \in Keys : HasTracker(k)},
                             !.refs = nt])
  /\ UNCHANGED <<clock, grp, tracked, hist, watch>>

\* Lines 140-144 for one item of the list.
TickProc(k) ==
  /\ tick.pc = "loop"
  /\ k \in tick.items
  /\ LET rest == [tick EXCEPT !.items = @ \ {k}]
         t    == heap[k][tick.refs[k]]
     IN
     IF ReminderDue(tracked[k], t, tick.now)
     THEN /\ Commit(nt, heap, addp, rec,
                    [rest EXCEPT !.pc = "send", !.cur = k,
                                 !.carried = ReminderCount(k)])
          /\ hist' = Emitted(hist, "REMINDER", k)
     ELSE /\ Commit(nt, heap, addp, rec, TickAfter(rest, k))
          /\ hist' = hist
  /\ UNCHANGED <<clock, grp, tracked, watch>>

\* send_notification returns; lines 145-146.
TickSendReturn(outcome) ==
  /\ tick.pc = "send"
  /\ LET k == tick.cur
         s == tick.refs[k]
     IN
     /\ Commit(nt, Write(heap, k, s, ReminderCommit(heap[k][s], tick.now)),
               addp, rec, TickAfter(tick, k))
     /\ hist' = Delivered(hist, k, outcome)
  /\ UNCHANGED <<clock, grp, tracked, watch>>

\* ------------------------------------------------------------------- time
\* time.time() moves on by step; the clock stays within cap of StartTime.
Advance(step, cap) ==
  /\ clock + step <= StartTime + cap
  /\ clock' = clock + step
  /\ UNCHANGED <<grp, tracked, nt, heap, addp, rec, tick, hist, watch>>

\* A timestamp after the origin of the time axis has moved on by step.  0 is
\* the 'never sent' mark of the trackers and stays; a timestamp does not go
\* below StartTime - IntervalMs.
Shifted(v, step) ==
  IF v = 0 THEN 0
  ELSE IF v - step < StartTime - IntervalMs THEN StartTime - IntervalMs
  ELSE v - step

\* time.time() moves on by step with the clock at the top of its window: the
\* origin of the time axis moves on with it, every stored timestamp reads
\* step less and the clock reads the same.  The handlers only take
\* differences of timestamps, and compare them with IntervalMs: a lastSent
\* below StartTime - IntervalMs is at least IntervalMs before any now, as
\* every now of a running reminder job is kept at or above StartTime (the job
\* is taken to end within cap of its start).
Shift(step, cap) ==
  /\ clock + step > StartTime + cap
  /\ tick.pc # "idle" => tick.now - step >= StartTime
  /\ heap' = [k \in Keys |-> [s \in Slots |->
               IF heap[k][s] = Free THEN Free
               ELSE [heap[k][s] EXCEPT !.lastSent = Shifted(@, step)]]]
  /\ tick' = IF tick.pc = "idle" THEN tick ELSE [tick EXCEPT !.now = @ - step]
  /\ UNCHANGED <<clock, grp, tracked, nt, addp, rec, hist, watch>>

\* ---------------------------------------------------------- specifications
Quiet == addp.pc = "idle" /\ rec.pc = "idle" /\ tick.pc = "idle"

InitWith(catalogues, aspects) ==
  /\ clock = StartTime
  /\ grp \in catalogues
  /\ watch \in aspects
  /\ tracked = [k \in Keys |-> None]
  /\ nt = [k \in Keys |-> NoSlot]
  /\ heap = [k \in Keys |-> [s \in Slots |-> Free]]
  /\ addp = AddIdle
  /\ rec = RecIdle
  /\ tick = TickIdle
  /\ hist = HistInit

\* The requests and the jobs interleave freely, on one classNumber.
Init == InitWith({[k \in Keys |-> "gA"]}, {"log", "streak", "time", "answer"})

Next ==
  \/ \E st \in Status : AddBegin("k1", st)
  \/ \E res \in Status \cup {Missing} : AddFetchReturn(res)
  \/ AddFetchRaise
  \/ \E o \in Outcomes : AddSendReturn(o)
  \/ Delete("k1")
  \/ RecStart
  \/ \E g \in Groups : RecFetchReturn(g)
  \/ \E g \in Groups : RecFetchRaise(g)
  \/ \E k \in Keys, st \in Status \cup {Missing} : RecProc(k, st)
  \/ \E o \in Outcomes : RecSendReturn(o)
  \/ TickStart
  \/ \E k \in Keys : TickProc(k)
  \/ \E o \in Outcomes : TickSendReturn(o)
  \/ Advance(IntervalMs, ConcHorizon * IntervalMs)

Spec == Init /\ [][Next]_vars

\* One operation at a time, on one classNumber: a request or a job starts
\* only when no other is under way.
SeqInit == InitWith({[k \in Keys |-> "gA"]}, {"all"})

SeqNext ==
  \/ Quiet /\ \E st \in Status : AddBegin("k1", st)
  \/ \E res \in Status \cup {Missing} : AddFetchReturn(res)
  \/ AddFetchRaise
  \/ \E o \in Outcomes : AddSendReturn(o)
  \/ Quiet /\ Delete("k1")
  \/ Quiet /\ RecStart
  \/ \E g \in Groups : RecFetchReturn(g)
  \/ \E g \in Groups : RecFetchRaise(g)
  \/ \E k \in Keys, st \in Status \cup {Missing} : RecProc(k, st)
  \/ \E o \in Outcomes : RecSendReturn(o)
  \/ Quiet /\ TickStart
  \/ \E k \in Keys : TickProc(k)
  \/ \E o \in Outcomes : TickSendReturn(o)
  \/ Advance(HalfHour, SeqHorizon * HalfHour)
  \/ Shift(HalfHour, SeqHorizon * HalfHour)

SeqSpec == SeqInit /\ [][SeqNext]_vars

\* One operation at a time, on two classNumbers of one group or of two.
WideInit == InitWith({[k \in Keys |-> "gA"],
                      [k \in Keys |-> IF k = "k1" THEN "gA" ELSE "gB"]}, {"cycle"})

WideNext ==
  \/ Quiet /\ \E k \in Keys, st \in Status : AddBegin(k, st)
  \/ \E res \in Status \cup {Missing} : AddFetchReturn(res)
  \/ AddFetchRaise
  \/ \E o \in Outcomes : AddSendReturn(o)
  \/ Quiet /\ \E k \in Keys : Delete(k)
  \/ Quiet /\ RecStart
  \/ \E g \in Groups : RecFetchReturn(g)
  \/ \E g \in Groups : RecFetchRaise(g)
  \/ \E k \in Keys, st \in Status \cup {Missing} : RecProc(k, st)
  \/ \E o \in Outcomes : RecSendReturn(o)

WideSpec == WideInit /\ [][WideNext]_vars

\* The requests and the jobs interleave freely, on one classNumber that is
\* added as the search showed it, OPEN, and that the source reports OPEN or
\* FULL, for as long as it takes the reminders to reach MAX_NOTIFICATIONS.
DeepInit == InitWith({[k \in Keys |-> "gA"]}, {"log"})

DeepNext ==
  \/ AddBegin("k1", "OPEN")
  \/ \E res \in {"OPEN", "FULL", Missing} : AddFetchReturn(res)
  \/ AddFetchRaise
  \/ \E o \in Outcomes : AddSendReturn(o)
  \/ Delete("k1")
  \/ RecStart
  \/ \E g \in Groups : RecFetchReturn(g)
  \/ \E g \in Groups : RecFetchRaise(g)
  \/ \E k \in Keys, st \in {"OPEN", "FULL", Missing} : RecProc(k, st)
  \/ \E o \in Outcomes : RecSendReturn(o)
  \/ TickStart
  \/ \E k \in Keys : TickProc(k)
  \/ \E o \in Outcomes : TickSendReturn(o)
  \/ Advance(IntervalMs, ConcHorizon * IntervalMs)
  \/ Shift(IntervalMs, ConcHorizon * IntervalMs)

DeepSpec == DeepInit /\ [][DeepNext]_vars

\* The requests and the jobs interleave freely on one classNumber that is
\* added once, is never removed, and that the source reports OPEN from its
\* first SEAT_OPENED on (before it, the immediate fetch may omit it).  The
\* scheduler keeps running both jobs, a blocking call returns in the end,
\* and time keeps passing.
LiveInit == InitWith({[k \in Keys |-> "gA"]}, {"log"})

LiveAdd ==
  \/ tracked["k1"] = None /\ AddBegin("k1", "OPEN")
  \/ AddFetchReturn("OPEN")
  \/ hist.lastEdge["k1"] # "SEAT_OPENED" /\ AddFetchReturn(Missing)
  \/ \E o \in Outcomes : AddSendReturn(o)

LiveRec ==
  \/ RecStart
  \/ \E g \in Groups : RecFetchReturn(g)
  \/ \E k \in Keys : RecProc(k, "OPEN")
  \/ \E o \in Outcomes : RecSendReturn(o)

LiveTick ==
  \/ TickStart
  \/ \E k \in Keys : TickProc(k)
  \/ \E o \in Outcomes : TickSendReturn(o)

LiveTime ==
  \/ Advance(IntervalMs, ConcHorizon * IntervalMs)
  \/ Shift(IntervalMs, ConcHorizon * IntervalMs)

LiveNext == LiveAdd \/ LiveRec \/ LiveTick \/ LiveTime

LiveSpec ==
  /\ LiveInit /\ [][LiveNext]_vars
  /\ WF_vars(LiveAdd) /\ WF_vars(LiveRec) /\ WF_vars(LiveTick) /\ WF_vars(LiveTime)

\* A request runs alone; the two jobs of the scheduler interleave freely
\* with each other, on one classNumber.
PairInit == InitWith({[k \in Keys |-> "gA"]}, {"log"})

PairNext ==
  \/ Quiet /\ \E st \in Status : AddBegin("k1", st)
  \/ \E res \in Status \cup {Missing} : AddFetchReturn(res)
  \/ \E o \in Outcomes : AddSendReturn(o)
  \/ Quiet /\ Delete("k1")
  \/ addp.pc = "idle" /\ RecStart
  \/ \E g \in Groups : RecFetchReturn(g)
  \/ \E k \in Keys, st \in Status \cup {Missing} : RecProc(k, st)
  \/ \E o \in Outcomes : RecSendReturn(o)
  \/ addp.pc = "idle" /\ TickStart
  \/ \E k \in Keys : TickProc(k)
  \/ \E o \in Outcomes : TickSendReturn(o)
  \/ Advance(IntervalMs, ConcHorizon * IntervalMs)

PairSpec == PairInit /\ [][PairNext]_vars

\* ------------------------------------------------------------------ claims
\* The tracker state of k as the store holds it, or Absent.
Absent == [count |-> -1, lastSent |-> 0, lastStatus |-> "absent"]
TrackerState(k) == IF HasTracker(k) THEN Stored(k) ELSE Absent

\* Steps of the jobs, as the state shows them.
\* The reconcile cycle handles k in this step (its fresh entry, present or not).
RecHandles(k) == rec.pc = "loop" /\ k \in rec.nums /\ k \notin rec'.nums
\* ... and hands a notification of the kind for k to send_notification.
RecEmits(k, kind) == rec'.pc = "send" /\ rec'.cur = k /\ rec'.kind = kind
\* The notification of the kind for k has been sent and the cycle goes on.
RecSent(k, kind) == rec.pc = "send" /\ rec.cur = k /\ rec.kind = kind /\ rec'.pc # "send"
\* The reminder tick handles k in this step.
TickHandles(k) == tick.pc = "loop" /\ k \in tick.items /\ k \notin tick'.items
\* A REMINDER for k is handed to send_notification in this step.
EmitsReminder(k) == tick.pc = "loop" /\ tick'.pc = "send" /\ tick'.cur = k
TickSent(k) == tick.pc = "send" /\ tick.cur = k /\ tick'.pc # "send"
\* The immediate check of the add of k ends without a notification / hands
\* SEAT_OPENED to send_notification / has sent it.
AddEndsQuietly(k) == addp.pc = "fetch" /\ addp.k = k /\ addp'.pc = "idle"
AddEmits(k) == addp.pc = "fetch" /\ addp.k = k /\ addp'.pc = "send"
AddSent(k) == addp.pc = "send" /\ addp.k = k /\ addp'.pc = "idle"

\* C1: when two consecutive reconcile cycles both observe the same status S
\* for an entity, with no add or remove of it in between, the second cycle
\* emits no notification for it and leaves its tracker state as it was; this
\* for every state of the entity, one without tracker state included.
C1_IdempotentDebounce ==
  [][\A k \in Keys :
       (RecHandles(k) /\ hist.lastObs[k] # None /\ hist'.lastObs[k] = hist.lastObs[k])
         => (rec'.pc # "send" /\ TrackerState(k)' = TrackerState(k))]_vars

\* C2: a reconcile cycle that observes OPEN for a tracked entity whose
\* lastStatus is not OPEN emits one SEAT_OPENED for it, and afterwards the
\* entity's tracker state is lastStatus = OPEN, reminderCount = 1,
\* lastSentAt = the time of the observation.
C2_RisingEdge ==
  /\ [][\A k \in Keys :
          (RecHandles(k) /\ hist'.lastObs[k] = "OPEN"
             /\ TrackerState(k).lastStatus # "OPEN")
            => RecEmits(k, "SEAT_OPENED")]_vars
  /\ [][\A k \in Keys :
          RecSent(k, "SEAT_OPENED")
            => TrackerState(k)' = [count |-> 1, lastSent |-> clock, lastStatus |-> "OPEN"]]_vars

\* C3: a reconcile cycle that observes FULL for a tracked entity whose
\* lastStatus is OPEN emits one SEAT_CLOSED for it and afterwards the tracker
\* state has lastStatus = FULL and reminderCount = 0; a further cycle that
\* observes FULL emits nothing.
C3_FallingEdge ==
  /\ [][\A k \in Keys :
          (RecHandles(k) /\ hist'.lastObs[k] = "FULL"
             /\ TrackerState(k).lastStatus = "OPEN")
            => RecEmits(k, "SEAT_CLOSED")]_vars
  /\ [][\A k \in Keys :
          RecSent(k, "SEAT_CLOSED")
            => (TrackerState(k)'.lastStatus = "FULL" /\ TrackerState(k)'.count = 0)]_vars
  /\ [][\A k \in Keys :
          (RecHandles(k) /\ hist.lastEdge[k] = "SEAT_CLOSED"
             /\ hist.lastObs[k] = "FULL" /\ hist'.lastObs[k] = "FULL")
            => (rec'.pc # "send" /\ TrackerState(k)' = TrackerState(k))]_vars

\* C3 witness: a falling edge has been handled: SEAT_CLOSED was the last edge
\* notification of k1, the cycle is over and the tracker is FULL with count 0.
C3_Witness ==
  /\ rec.pc = "idle"
  /\ hist.lastEdge["k1"] = "SEAT_CLOSED" /\ hist.lastObs["k1"] = "FULL"
  /\ TrackerState("k1").lastStatus = "FULL" /\ TrackerState("k1").count = 0

\* The condition of C4 for k at a tick that read the time tick.now.
C4_Due(k) ==
  /\ tracked[k] = "OPEN"
  /\ HasTracker(k)
  /\ 0 < Stored(k).count /\ Stored(k).count < MAX_NOTIFICATIONS
  /\ tick.now - Stored(k).lastSent >= IntervalMs

\* C4: a reminder tick at time now emits a REMINDER for an entity exactly
\* when its registry snapshot is OPEN, 0 < reminderCount < MAX_NOTIFICATIONS
\* and now - lastSentAt >= REMINDER_INTERVAL; the REMINDER carries the
\* reminderCount held before the increment, it is the only one for that
\* entity in that tick, afterwards reminderCount is one more and lastSentAt
\* is now; when none is emitted the tracker state is unchanged.
C4_ReminderRule ==
  /\ [][\A k \in Keys : EmitsReminder(k) => (TickHandles(k) /\ C4_Due(k))]_vars
  /\ [][\A k \in Keys :
          TickHandles(k) =>
            IF C4_Due(k)
            THEN /\ EmitsReminder(k)
                 /\ tick'.carried = Stored(k).count
                 /\ TrackerState(k)' = TrackerState(k)
            ELSE /\ tick'.pc # "send"
                 /\ TrackerState(k)' = TrackerState(k)]_vars
  /\ [][\A k \in Keys :
          TickSent(k) =>
            /\ TrackerState(k)' = [Stored(k) EXCEPT !.count = @ + 1, !.lastSent = tick.now]
            /\ tick.carried = Stored(k).count
            /\ k \notin tick'.items]_vars
  /\ [][(tick.pc # "idle" /\ tick'.pc # "idle") => tick'.items \subseteq tick.items]_vars

\* C4 witness: reminders have been emitted and committed up to the cap.
C4_Witness ==
  /\ tick.pc = "idle"
  /\ tracked["k1"] = "OPEN"
  /\ TrackerState("k1").count = MAX_NOTIFICATIONS

\* C5: for every sequence or interleaving of add, remove, reconcile cycles
\* and reminder ticks, at most MAX_NOTIFICATIONS - 1 REMINDERs are emitted for
\* an entity after a SEAT_OPENED and before its next SEAT_OPENED or
\* SEAT_CLOSED, and a tick emits no REMINDER for an entity whose
\* reminderCount equals MAX_NOTIFICATIONS.
C5_ReminderCap ==
  /\ [](\A k \in Keys : hist.lastEdge[k] = "SEAT_OPENED"
                          => hist.remSince[k] <= MAX_NOTIFICATIONS - 1)
  /\ [][\A k \in Keys : (HasTracker(k) /\ Stored(k).count = MAX_NOTIFICATIONS)
                          => ~EmitsReminder(k)]_vars

\* C6: when the fetch of one group fails in a reconcile cycle, the entities
\* of that group keep their snapshot and tracker state, and the entities of
\* every other group are still updated in the same cycle, whatever the order
\* of the groups: the cycle ends at a failed fetch (the job is idle again, a
\* later cycle can start) only if no other group was left to fetch.
C6_FetchFailureIsolation ==
  [][(rec.pc = "fetch" /\ rec'.pc = "idle")
       => /\ \A k \in Keys : tracked'[k] = tracked[k] /\ TrackerState(k)' = TrackerState(k)
          /\ \A j, k \in rec.todo : grp[j] = grp[k]]_vars

\* C7: the add of an entity that is not yet tracked, when the immediate
\* fetch reports it OPEN, emits SEAT_OPENED during the add and leaves the
\* tracker at lastStatus = OPEN, reminderCount = 1; and while the source
\* keeps reporting it OPEN no second SEAT_OPENED is emitted for it, by a
\* reconcile cycle running concurrently with the add or after it.
C7_ImmediateCheck ==
  /\ [](\A k \in Keys : hist.streak[k] <= 1)
  /\ [][\A k \in Keys :
          (AddSent(k) /\ hist.streak[k] >= 0)
            => (TrackerState(k)'.lastStatus = "OPEN" /\ TrackerState(k)'.count = 1)]_vars

\* C8: once an add of k is over, a tracker state exists for k; when the add
\* ended without a notification (the immediate fetch did not report k, or
\* reported it not OPEN) that state is the initial one.
C8_AddInitialisesTracker ==
  /\ [][\A k \in Keys : AddEndsQuietly(k) => TrackerState(k)' = InitTracker]_vars
  /\ [][\A k \in Keys : AddSent(k) => HasTracker(k)']_vars

\* C9: after remove(k) neither the registry nor the tracker holds an entry
\* for k, whatever its history: what the program holds for k is what it held
\* before k was ever tracked; and when k is tracked again and its immediate
\* check observes OPEN, one SEAT_OPENED is emitted from a fresh initial
\* tracker and the tracker ends at lastStatus = OPEN, reminderCount = 1, as
\* for an entity never tracked before.
C9_UntrackClears ==
  /\ [][\A k \in Keys : Delete(k) => (tracked'[k] = None /\ ~HasTracker(k)')]_vars
  /\ [][\A k \in Keys :
          (Quiet /\ Delete(k)) => \A s \in Slots : heap'[k][s] = Free]_vars
  /\ [](\A k \in Keys : (Quiet /\ tracked[k] = None) => ~HasTracker(k))
  /\ [][\A k \in Keys : AddEmits(k) => TrackerState(k)' = InitTracker]_vars
  /\ [][\A k \in Keys :
          AddSent(k) =>
            TrackerState(k)' = [count |-> 1, lastSent |-> clock, lastStatus |-> "OPEN"]]_vars

\* C9 witness: k1 was removed while its tracker was OPEN with reminders
\* sent, has been added again, and the immediate check has observed OPEN and
\* handed SEAT_OPENED to send_notification.
C9_Witness ==
  /\ hist.delHist["k1"] = "open"
  /\ addp.pc = "send" /\ addp.k = "k1"
  /\ TrackerState("k1") = InitTracker

\* C10: when the delivery of a notification fails or is skipped, the tracker
\* state ends as it does when delivery succeeds (rising edge: OPEN, 1, now;
\* falling edge: FULL, 0; reminder: count + 1, now; immediate check: OPEN, 1,
\* now; no state where the entity had none), the notification is not sent
\* again in that cycle nor by a later cycle that observes the same status,
\* and the rest of the cycle is still processed.
C10_DeliveryFailure ==
  /\ [][\A k \in Keys :
          (RecSent(k, "SEAT_OPENED") /\ hist'.failed[k])
            => /\ TrackerState(k)' =
                    IF HasTracker(k)
                    THEN [count |-> 1, lastSent |-> clock, lastStatus |-> "OPEN"]
                    ELSE Absent
               /\ k \notin rec'.nums /\ rec'.nums = rec.nums /\ rec'.todo = rec.todo]_vars
  /\ [][\A k \in Keys :
          (RecSent(k, "SEAT_CLOSED") /\ hist'.failed[k])
            => /\ TrackerState(k)'.lastStatus = "FULL" /\ TrackerState(k)'.count = 0
               /\ k \notin rec'.nums /\ rec'.nums = rec.nums /\ rec'.todo = rec.todo]_vars
  /\ [][\A k \in Keys :
          (AddSent(k) /\ hist'.failed[k])
            => TrackerState(k)' = [count |-> 1, lastSent |-> clock, lastStatus |-> "OPEN"]]_vars
  /\ [][\A k \in Keys :
          (TickSent(k) /\ hist'.failed[k])
            => /\ TrackerState(k)' = [Stored(k) EXCEPT !.count = @ + 1, !.lastSent = tick.now]
               /\ tick'.items = tick.items]_vars
  /\ [][\A k \in Keys :
          (RecHandles(k) /\ hist.failed[k]
             /\ hist.lastObs[k] # None /\ hist'.lastObs[k] = hist.lastObs[k])
            => rec'.pc # "send"]_vars

\* C11: in every reachable state, under any interleaving of add, remove,
\* reconcile cycle and reminder tick, every tracker (the stored ones and the
\* ones a handler still holds) has 0 <= reminderCount <= MAX_NOTIFICATIONS,
\* and no step increases the stored reminderCount of an entity that equals
\* MAX_NOTIFICATIONS.
C11_CountRange ==
  /\ [](\A k \in Keys : \A s \in Slots :
          heap[k][s] # Free
            => (0 <= heap[k][s].count /\ heap[k][s].count <= MAX_NOTIFICATIONS))
  /\ [][\A k \in Keys :
          (HasTracker(k) /\ Stored(k).count = MAX_NOTIFICATIONS /\ HasTracker(k)')
            => Stored(k)'.count <= MAX_NOTIFICATIONS]_vars

\* C11 witness: a reminder tick is about to handle an OPEN entity whose
\* reminderCount is MAX_NOTIFICATIONS while a reconcile cycle is under way.
C11_Witness ==
  \E k \in Keys :
    /\ HasTracker(k) /\ Stored(k).count = MAX_NOTIFICATIONS
    /\ tracked[k] = "OPEN"
    /\ tick.pc = "loop" /\ k \in tick.items
    /\ rec.pc # "idle"

\* C12: when remove(k) runs while a reconcile cycle is in progress (k is
\* among the classNumbers the cycle partitioned and still has to handle, and
\* tracked_classes holds k no more), the cycle leaves the registry and the
\* tracker without an entry for k and emits no notification for k.
C12_RemoveNotUndone ==
  [][\A k \in Keys :
       (RecHandles(k) /\ tracked[k] = None /\ addp.pc = "idle")
         => (tracked'[k] = None /\ ~HasTracker(k)' /\ rec'.pc # "send")]_vars

\* C13: when a reconcile cycle observes a status for a tracked entity that
\* has no tracker state, a tracker state for it is in the store once the
\* cycle has handled it: the initial state with the observed status as
\* lastStatus when no notification is due, and lastStatus = OPEN,
\* reminderCount = 1 after observing OPEN.
C13_LazyCreation ==
  /\ [][\A k \in Keys :
          (RecHandles(k) /\ ~HasTracker(k) /\ hist'.lastObs[k] # None
             /\ rec'.pc # "send")
            => TrackerState(k)' = SetLastStatus(InitTracker, hist'.lastObs[k])]_vars
  /\ [][\A k \in Keys :
          (RecSent(k, "SEAT_OPENED") /\ rec.ref = NoSlot)
            => (HasTracker(k)' /\ TrackerState(k)'.lastStatus = "OPEN"
                  /\ TrackerState(k)'.count = 1)]_vars

\* C14: in a reconcile cycle, every tracked entity whose key is absent from
\* its group's fresh batch keeps its registry snapshot and its tracker state
\* and gets no notification, while the entities of the same group that are in
\* the batch are updated (their snapshot takes the fresh status).
C14_OmittedUntouched ==
  /\ [][\A k \in Keys :
          (RecHandles(k) /\ hist'.lastObs[k] = None)
            => /\ tracked'[k] = tracked[k]
               /\ TrackerState(k)' = TrackerState(k)
               /\ heap'[k] = heap[k]
               /\ rec'.pc # "send"]_vars
  /\ [][\A k \in Keys :
          (RecHandles(k) /\ hist'.lastObs[k] # None)
            => /\ tracked'[k] = hist'.lastObs[k]
               /\ \A j \in Keys \ {k} :
                    tracked'[j] = tracked[j] /\ TrackerState(j)' = TrackerState(j)]_vars

\* C14 witness: in a cycle over two entities of one group, k1 (tracked, its
\* tracker OPEN) was absent from the batch and has been passed over, and k2,
\* in the batch, has been updated to OPEN, its SEAT_OPENED under way.
C14_Witness ==
  /\ grp["k1"] = grp["k2"]
  /\ rec.pc = "send" /\ rec.cur = "k2" /\ rec.nums = {}
  /\ tracked["k2"] = "OPEN" /\ hist.lastObs["k2"] = "OPEN"
  /\ hist.lastObs["k1"] = None
  /\ tracked["k1"] = "OPEN" /\ TrackerState("k1").lastStatus = "OPEN"

\* C15: for every prior tracker state of k (absent, FULL, OPEN with any
\* reminderCount) and every fresh status the immediate fetch returns for k,
\* the immediate check of add emits the notifications and leaves the tracker
\* state that the observe rule of the reconcile cycle gives from that prior
\* state (stated for the fresh statuses OPEN and FULL): nothing and no change for an unchanged status (re-adding an OPEN
\* entity that is still OPEN keeps reminderCount and lastSentAt), SEAT_OPENED
\* on a rising edge, SEAT_CLOSED on a falling edge.
C15_ImmediateIsReconcile ==
  /\ [][\A k \in Keys, res \in {"OPEN", "FULL"} :
          (addp.k = k /\ AddFetchReturn(res)) =>
            LET prior == RecTracker(k)
                kind  == EdgeKind(prior.lastStatus, res)
            IN IF res = prior.lastStatus
               THEN addp'.pc = "idle" /\ TrackerState(k)' = prior
               ELSE IF kind # None
               THEN addp'.pc = "send" /\ hist'.lastEdge[k] = kind
               ELSE addp'.pc = "idle" /\ TrackerState(k)' = SetLastStatus(prior, res)]_vars
  /\ [][\A k \in Keys :
          AddSent(k) =>
            TrackerState(k)' = SetLastStatus(RisingCommit(Stored(k), clock), "OPEN")]_vars

\* C16: under any interleaving of add, remove, reconcile cycles and reminder
\* ticks, a REMINDER for an entity is emitted by a tick whose time (the now
\* it read) is at least REMINDER_INTERVAL after the most recent SEAT_OPENED
\* or REMINDER emitted for it before (a SEAT_OPENED counts from the time it
\* was handed to send_notification, a REMINDER from the time of its tick);
\* so a tick less than REMINDER_INTERVAL after an opening alert emits none.
C16_ReminderSpacing ==
  [][\A k \in Keys :
       (EmitsReminder(k) /\ hist.lastAt[k] # 0)
         => tick.now - hist.lastAt[k] >= IntervalMs]_vars

\* C17: once SEAT_OPENED has been emitted for a tracked classNumber that the
\* source keeps reporting OPEN and that is not removed, and while time passes
\* and the reminder tick keeps running, a REMINDER is eventually emitted for
\* it, its tracker's count eventually reaches MAX_NOTIFICATIONS, and with the
\* count there no further REMINDER is emitted.
C17_RemindersFollow ==
  /\ [](hist.lastEdge["k1"] = "SEAT_OPENED" => <>(hist.remSince["k1"] >= 1))
  /\ [](hist.lastEdge["k1"] = "SEAT_OPENED"
          => <>(HasTracker("k1") /\ Stored("k1").count = MAX_NOTIFICATIONS))
  /\ [][(HasTracker("k1") /\ Stored("k1").count = MAX_NOTIFICATIONS)
          => ~EmitsReminder("k1")]_vars

\* C18: under any interleaving of add, remove, reconcile cycles and reminder
\* ticks, a SEAT_CLOSED for a classNumber answers an opening: the last of
\* SEAT_OPENED and SEAT_CLOSED emitted for it since it was last tracked (the
\* add of an untracked classNumber, or its removal, starts afresh) is a
\* SEAT_OPENED.
C18_ClosedAnswersOpening ==
  [][\A k \in Keys :
       (W("answer") /\ RecHandles(k) /\ RecEmits(k, "SEAT_CLOSED"))
         => hist.answer[k] = "SEAT_OPENED"]_vars

\* C19: when a reminder tick runs concurrently with a reconcile cycle, no
\* REMINDER is emitted for a classNumber whose last edge notification is a
\* SEAT_CLOSED, and a tick that has sent a REMINDER does not leave a count
\* above 0 on a tracker whose falling edge the cycle has processed to its end.
C19_NoReminderAfterClosed ==
  /\ [][\A k \in Keys : EmitsReminder(k) => hist.lastEdge[k] # "SEAT_CLOSED"]_vars
  /\ [][\A k \in Keys :
          (/\ TickSent(k) /\ hist.lastEdge[k] = "SEAT_CLOSED"
           /\ ~(rec.pc = "send" /\ rec.cur = k)
           /\ HasTracker(k) /\ tick.refs[k] = nt[k])
            => heap'[k][nt'[k]].count = 0]_vars

====
